---- MODULE Spec2Model ----
(***************************************************************************)
(* The request lifecycle of GeneratorPage (frontend/src/App.js): the four  *)
(* useState fields, generateInfographic with its three progress timers and *)
(* its axios.post completion, downloadImage, the conditional views of the  *)
(* render, and the two routes of App.                                      *)
(***************************************************************************)
EXTENDS Integers, Sequences, FiniteSets

(***************************************************************************)
(* JavaScript values, as far as the handlers look at them: a type tag and  *)
(* a printed value.  Truthy and Or are JS truthiness and the || operator.  *)
(***************************************************************************)
Undefined == [type |-> "undefined", val |-> ""]

Null == [type |-> "null", val |-> ""]

Str(s) == [type |-> "string", val |-> s]

Num(s) == [type |-> "number", val |-> s]

Obj(s) == [type |-> "object", val |-> s]

Truthy(v) ==
    CASE v.type \in {"undefined", "null"} -> FALSE
      [] v.type = "string" -> v.val # ""
      [] v.type = "number" -> v.val # "0"
      [] OTHER -> TRUE

Or(a, b) == IF Truthy(a) THEN a ELSE b

(***************************************************************************)
(* Bounds of the model.                                                    *)
(***************************************************************************)
MaxInvocations == 2

(***************************************************************************)
(* The body of an HTTP response (response.data / err.response.data): absent,*)
(* a text body, or a JSON object with the two fields the code reads.  A    *)
(* field the object does not have is Undefined, as a JS property read      *)
(* gives.                                                                  *)
(***************************************************************************)
NoData == [kind |-> "undefined", image_base64 |-> Undefined, detail |-> Undefined]

TextData == [kind |-> "string", image_base64 |-> Undefined, detail |-> Undefined]

JsonData(img, det) == [kind |-> "object", image_base64 |-> img, detail |-> det]

DataTruthy(data) == data.kind # "undefined"

ImageOf(data) == IF data.kind = "object" THEN data.image_base64 ELSE Undefined

DetailOf(data) == IF data.kind = "object" THEN data.detail ELSE Undefined

\* values a backend may put in image_base64
ImageValues == {Undefined, Str(""), Str("X"), Str("Y"), Num("7")}

\* values a backend may put in detail
DetailValues == {Undefined, Str(""), Str("quota exceeded"), Obj("[{}]")}

\* the bodies of 2xx responses
SuccessBodies == {NoData, TextData} \cup {JsonData(i, Undefined) : i \in ImageValues}

(***************************************************************************)
(* The error caught at line 91: an axios error with a response (non-2xx),  *)
(* an axios error without one (transport failure), each with a message     *)
(* that may be empty, or the Error thrown at line 89.                      *)
(***************************************************************************)
MkErr(hasResponse, data, message) ==
    [hasResponse |-> hasResponse, data |-> data, message |-> message]

NoErr == MkErr(FALSE, NoData, Undefined)

NoImageError == MkErr(FALSE, NoData, Str("No image data received"))

TransportErrors == {MkErr(FALSE, NoData, m) : m \in {Str("Network Error"), Str("")}}

BackendErrors ==
    {MkErr(TRUE, d, m) :
        d \in {TextData} \cup {JsonData(Undefined, x) : x \in DetailValues},
        m \in {Str("Request failed with status code 500"), Str("")}}

RequestErrors == TransportErrors \cup BackendErrors

GenericFailure == Str("Failed to generate infographic. Please try again.")

\* err.response?.data?.detail
ResponseDetail(err) == IF err.hasResponse THEN DetailOf(err.data) ELSE Undefined

\* variant: err.message tried before the response detail
ErrorMessage_PreferTransport(err) ==
    Or(Or(err.message, ResponseDetail(err)), GenericFailure)

\* variant: no generic fallback string
ErrorMessage_NoFallback(err) == Or(ResponseDetail(err), err.message)

\* the argument of setError, lines 93-97
ErrorMessage(err) == Or(Or(ResponseDetail(err), err.message), GenericFailure)

VARIABLES
    page,            \* the route shown: "landing" or "generator"
    loading,         \* useState(false)
    generatedImage,  \* useState(null)
    error,           \* useState(null)
    loadingMessage,  \* useState("")
    timers,          \* pending setTimeout callbacks, in scheduling order
    pending,         \* axios.post calls awaiting completion
    invoked,         \* number of calls of generateInfographic
    issued,          \* number of axios.post calls made
    saved,           \* the link downloadImage clicked last
    last             \* the handler that ran last, with its input

view == <<loading, generatedImage, error, loadingMessage>>

vars == <<page, loading, generatedImage, error, loadingMessage, timers, pending,
          invoked, issued, saved, last>>

Ran(op, data, err) == [op |-> op, data |-> data, err |-> err]

Preparing == "Preparing your infographic..."

\* the three setTimeout calls of lines 79-81, delays in seconds
ProgressSchedule ==
    << [delay |-> 2, message |-> "Analyzing data and structure..."],
       [delay |-> 5, message |-> "Creating visual design with Visa blue theme..."],
       [delay |-> 10, message |-> "Finalizing your infographic..."] >>

ScheduledTimers ==
    [i \in 1..Len(ProgressSchedule) |->
        [delay |-> ProgressSchedule[i].delay,
         message |-> ProgressSchedule[i].message,
         orphan |-> FALSE]]

(***************************************************************************)
(* The views of the render, lines 162-223.                                 *)
(***************************************************************************)
\* variant: the button is taken out of the render while loading
GenerateButtonRendered_HiddenWhileLoading ==
    page = "generator" /\ ~Truthy(generatedImage) /\ ~loading

GenerateButtonRendered == page = "generator" /\ ~Truthy(generatedImage)

\* variant: no disabled attribute
GenerateButtonEnabled_NoDisable == GenerateButtonRendered

GenerateButtonEnabled == GenerateButtonRendered /\ ~loading

LoadingView == page = "generator" /\ loading

ErrorView == page = "generator" /\ Truthy(error)

ResultView == page = "generator" /\ Truthy(generatedImage) /\ ~loading

PlaceholderView ==
    page = "generator" /\ ~loading /\ ~Truthy(error) /\ ~Truthy(generatedImage)

\* the views of the output section that the render shows, lines 174-223
ActiveViews ==
    {v \in {"loading", "error", "result", "placeholder"} :
        CASE v = "loading" -> LoadingView
          [] v = "error" -> ErrorView
          [] v = "result" -> ResultView
          [] v = "placeholder" -> PlaceholderView}

\* the progress text on screen: loading-text is rendered inside the loading
\* container only, lines 174-180
ShownProgress == IF LoadingView THEN loadingMessage ELSE ""

\* the requests whose completion still reaches the mounted GeneratorPage
LiveRequests == {r \in pending : ~r.orphan}

\* the requests in flight, by number
RequestIds == {r.id : r \in pending}

\* nothing saved yet
NoLink == [href |-> Undefined, download |-> ""]

\* the useState initial values, lines 66-69
Mount ==
    /\ loading' = FALSE
    /\ generatedImage' = Null
    /\ error' = Null
    /\ loadingMessage' = ""

Init ==
    /\ page = "landing"
    /\ loading = FALSE
    /\ generatedImage = Null
    /\ error = Null
    /\ loadingMessage = ""
    /\ timers = << >>
    /\ pending = {}
    /\ invoked = 0
    /\ issued = 0
    /\ saved = NoLink
    /\ last = Ran("init", NoData, NoErr)

(***************************************************************************)
(* generateInfographic up to its await, lines 71-83.                       *)
(***************************************************************************)
\* variant: setError(null) left out
generateInfographic_KeepError ==
    /\ loading' = TRUE
    /\ error' = error
    /\ generatedImage' = Null
    /\ loadingMessage' = Preparing
    /\ timers' = timers \o ScheduledTimers
    /\ issued' = issued + 1
    /\ pending' = pending \cup {[id |-> issued + 1, orphan |-> FALSE]}
    /\ invoked' = invoked + 1

\* variant: setGeneratedImage(null) left out
generateInfographic_KeepImage ==
    /\ loading' = TRUE
    /\ error' = Null
    /\ generatedImage' = generatedImage
    /\ loadingMessage' = Preparing
    /\ timers' = timers \o ScheduledTimers
    /\ issued' = issued + 1
    /\ pending' = pending \cup {[id |-> issued + 1, orphan |-> FALSE]}
    /\ invoked' = invoked + 1

generateInfographic ==
    /\ loading' = TRUE
    /\ error' = Null
    /\ generatedImage' = Null
    /\ loadingMessage' = Preparing
    /\ timers' = timers \o ScheduledTimers
    /\ issued' = issued + 1
    /\ pending' = pending \cup {[id |-> issued + 1, orphan |-> FALSE]}
    /\ invoked' = invoked + 1

(***************************************************************************)
(* The catch and finally blocks, lines 91-101.                             *)
(***************************************************************************)
\* variant: setLoadingMessage("") left out of the catch block
Catch_KeepMessage(err) ==
    /\ error' = ErrorMessage(err)
    /\ loadingMessage' = loadingMessage
    /\ loading' = FALSE
    /\ generatedImage' = generatedImage

\* variant: no finally block, loading is left as it is
Catch_NoFinally(err) ==
    /\ error' = ErrorMessage(err)
    /\ loadingMessage' = ""
    /\ loading' = loading
    /\ generatedImage' = generatedImage

Catch(err) ==
    /\ error' = ErrorMessage(err)
    /\ loadingMessage' = ""
    /\ loading' = FALSE
    /\ generatedImage' = generatedImage

(***************************************************************************)
(* The continuation after the await when the request resolved, lines 85-90 *)
(* and the finally of line 100.                                            *)
(***************************************************************************)
\* variant: only response.data is tested
OnResponse_DataOnly(data) ==
    IF DataTruthy(data)
    THEN /\ generatedImage' = ImageOf(data)
         /\ loadingMessage' = ""
         /\ loading' = FALSE
         /\ error' = error
    ELSE Catch(NoImageError)

\* variant: no setLoading(false) on the success path
OnResponse_NoFinally(data) ==
    IF DataTruthy(data) /\ Truthy(ImageOf(data))
    THEN /\ generatedImage' = ImageOf(data)
         /\ loadingMessage' = ""
         /\ loading' = loading
         /\ error' = error
    ELSE Catch(NoImageError)

OnResponse(data) ==
    IF DataTruthy(data) /\ Truthy(ImageOf(data))
    THEN /\ generatedImage' = ImageOf(data)
         /\ loadingMessage' = ""
         /\ loading' = FALSE
         /\ error' = error
    ELSE Catch(NoImageError)

(***************************************************************************)
(* downloadImage, lines 104-113.                                           *)
(***************************************************************************)
SavedLink == [href |-> generatedImage, download |-> "visa-wwc-infographic.png"]

\* variant: the early return of line 105 left out
downloadImage_NoGuard == saved' = SavedLink

downloadImage ==
    IF ~Truthy(generatedImage)
    THEN saved' = saved
    ELSE saved' = SavedLink

(***************************************************************************)
(* Actions.                                                                *)
(***************************************************************************)
\* LandingPage's button: navigate('/generator') mounts a new GeneratorPage
Proceed ==
    /\ page = "landing"
    /\ page' = "generator"
    /\ Mount
    /\ last' = Ran("proceed", NoData, NoErr)
    /\ UNCHANGED <<timers, pending, invoked, issued, saved>>

\* leaving /generator for / unmounts GeneratorPage: its state is dropped and
\* the callbacks it left behind no longer reach a mounted component.  Such a
\* callback does the same whenever it runs, so its remaining delay is not kept.
Back ==
    /\ page = "generator"
    /\ page' = "landing"
    /\ Mount
    /\ timers' = [i \in 1..Len(timers) |-> [timers[i] EXCEPT !.orphan = TRUE, !.delay = 0]]
    /\ pending' = {[r EXCEPT !.orphan = TRUE] : r \in pending}
    /\ last' = Ran("back", NoData, NoErr)
    /\ UNCHANGED <<invoked, issued, saved>>

ClickGenerate ==
    /\ GenerateButtonEnabled
    /\ invoked < MaxInvocations
    /\ generateInfographic
    /\ last' = Ran("generate", NoData, NoErr)
    /\ UNCHANGED <<page, saved>>

ClickRetry ==
    /\ ErrorView
    /\ invoked < MaxInvocations
    /\ generateInfographic
    /\ last' = Ran("retry", NoData, NoErr)
    /\ UNCHANGED <<page, saved>>

ClickRegenerate ==
    /\ ResultView
    /\ invoked < MaxInvocations
    /\ generateInfographic
    /\ last' = Ran("regenerate", NoData, NoErr)
    /\ UNCHANGED <<page, saved>>

\* generateInfographic called while its own request is outstanding: the
\* function itself has no guard
Reenter ==
    /\ page = "generator"
    /\ LiveRequests # {}
    /\ invoked < MaxInvocations
    /\ generateInfographic
    /\ last' = Ran("reenter", NoData, NoErr)
    /\ UNCHANGED <<page, saved>>

\* one second passes; a timer that is due runs before the clock moves on
Tick ==
    /\ timers # << >>
    /\ \A i \in 1..Len(timers) : timers[i].delay > 0
    /\ timers' = [i \in 1..Len(timers) |-> [timers[i] EXCEPT !.delay = @ - 1]]
    /\ UNCHANGED <<page, view, pending, invoked, issued, saved, last>>

Remove(s, i) == SubSeq(s, 1, i - 1) \o SubSeq(s, i + 1, Len(s))

\* variant: the callback writes state shared by every GeneratorPage instance
TimerFire_SharedState ==
    \E i \in 1..Len(timers) :
        /\ timers[i].delay = 0
        /\ \A j \in 1..(i - 1) : timers[j].delay > 0
        /\ loadingMessage' = timers[i].message
        /\ timers' = Remove(timers, i)
        /\ last' = Ran(IF timers[i].orphan THEN "orphan" ELSE "timer", NoData, NoErr)
        /\ UNCHANGED <<page, loading, generatedImage, error, pending, invoked, issued,
                       saved>>

\* the first due timer runs its callback: setLoadingMessage(message)
TimerFire ==
    \E i \in 1..Len(timers) :
        /\ timers[i].delay = 0
        /\ \A j \in 1..(i - 1) : timers[j].delay > 0
        /\ loadingMessage' = IF timers[i].orphan THEN loadingMessage ELSE timers[i].message
        /\ timers' = Remove(timers, i)
        /\ last' = Ran(IF timers[i].orphan THEN "orphan" ELSE "timer", NoData, NoErr)
        /\ UNCHANGED <<page, loading, generatedImage, error, pending, invoked, issued,
                       saved>>

\* variant: completion cancels the timers that are still pending
Resolve_CancelTimers ==
    \E r \in pending, data \in SuccessBodies :
        /\ pending' = pending \ {r}
        /\ IF r.orphan
           THEN /\ UNCHANGED <<view, timers>>
                /\ last' = Ran("orphan", NoData, NoErr)
           ELSE /\ OnResponse(data)
                /\ timers' = << >>
                /\ last' = Ran("response", data, NoErr)
        /\ UNCHANGED <<page, invoked, issued, saved>>

\* axios.post resolves with a 2xx response
Resolve ==
    \E r \in pending, data \in SuccessBodies :
        /\ pending' = pending \ {r}
        /\ IF r.orphan
           THEN /\ UNCHANGED view
                /\ last' = Ran("orphan", NoData, NoErr)
           ELSE /\ OnResponse(data)
                /\ last' = Ran("response", data, NoErr)
        /\ UNCHANGED <<page, timers, invoked, issued, saved>>

\* variant: a failed request is sent again by the catch block
Reject_AutoRetry ==
    \E r \in pending, err \in RequestErrors :
        /\ pending' = (pending \ {r}) \cup {[id |-> issued + 1, orphan |-> r.orphan]}
        /\ issued' = issued + 1
        /\ IF r.orphan
           THEN /\ UNCHANGED view
                /\ last' = Ran("orphan", NoData, NoErr)
           ELSE /\ Catch(err)
                /\ last' = Ran("failure", NoData, err)
        /\ UNCHANGED <<page, timers, invoked, saved>>

\* axios.post rejects
Reject ==
    \E r \in pending, err \in RequestErrors :
        /\ pending' = pending \ {r}
        /\ IF r.orphan
           THEN /\ UNCHANGED view
                /\ last' = Ran("orphan", NoData, NoErr)
           ELSE /\ Catch(err)
                /\ last' = Ran("failure", NoData, err)
        /\ UNCHANGED <<page, timers, invoked, issued, saved>>

\* downloadImage called, by the Download PNG button or otherwise
Download ==
    /\ page = "generator"
    /\ downloadImage
    /\ last' = Ran("download", NoData, NoErr)
    /\ UNCHANGED <<page, view, timers, pending, invoked, issued>>

Next ==
    \/ Proceed
    \/ Back
    \/ ClickGenerate
    \/ ClickRetry
    \/ ClickRegenerate
    \/ Tick
    \/ TimerFire
    \/ Resolve
    \/ Reject
    \/ Download

\* the program driven through the controls it renders
Spec == Init /\ [][Next]_vars

NextReentry == Next \/ Reenter

\* the program with generateInfographic also called while a request is outstanding
SpecReentry == Init /\ [][NextReentry]_vars

\* the await of line 83 resumes: every request completes, with a response or a
\* failure, and the event loop runs its continuation
SpecFair == Spec /\ WF_vars(Resolve \/ Reject)

(***************************************************************************)
(* Properties.                                                             *)
(***************************************************************************)
\* an image payload of the expected shape: a non-empty string
WellFormedImage(v) == v.type = "string" /\ v.val # ""

\* C1: in every reachable state of the Generator View, overlapping calls of
\* generateInfographic included, exactly one of the loading, error, result and
\* placeholder views is active.
C1_ExactlyOneView == page = "generator" => Cardinality(ActiveViews) = 1

\* C2: every invocation of generate (from Idle, Error or Result) leaves
\* loading true and the prior result and error cleared, and a result and an
\* error are never both non-null.
C2_GenerateClears ==
    /\ last.op \in {"generate", "retry", "regenerate"} =>
           loading /\ error = Null /\ generatedImage = Null
    /\ ~(error # Null /\ generatedImage # Null)

C2_Witness == last.op = "retry" /\ loading /\ error = Null /\ invoked = 2

\* C3: when the request completes with a 2xx response whose image_base64 is
\* the payload X (a non-empty string), the view is in Result with
\* generatedImage exactly X, error null and loading false.
C3_SuccessShowsPayload ==
    (last.op = "response" /\ WellFormedImage(ImageOf(last.data))) =>
        /\ generatedImage = last.data.image_base64
        /\ error = Null
        /\ ~loading
        /\ ActiveViews = {"result"}

C3_Witness ==
    /\ last.op = "response"
    /\ last.data = JsonData(Str("X"), Undefined)
    /\ generatedImage = Str("X")
    /\ ResultView

\* C4: when the request completes with a 2xx response that has no
\* image_base64 field, or no data at all, the view is in Error with the
\* message "No image data received", generatedImage null and loading false.
C4_MissingImageIsError ==
    (last.op = "response" /\ ImageOf(last.data) = Undefined) =>
        /\ error = Str("No image data received")
        /\ generatedImage = Null
        /\ ~loading
        /\ ActiveViews = {"error"}

C4_Witness ==
    /\ last.op = "response"
    /\ last.data = JsonData(Undefined, Undefined)
    /\ error = Str("No image data received")
    /\ ErrorView

\* C5: a 2xx response whose image_base64 is present but is not a non-empty
\* string (an empty string, a non-string value) is treated as failure: the
\* view is in Error and never in Result holding that value.
C5_MalformedImageIsError ==
    (/\ last.op = "response"
     /\ ImageOf(last.data) # Undefined
     /\ ~WellFormedImage(ImageOf(last.data))) =>
        /\ ErrorView
        /\ ~ResultView
        /\ generatedImage = Null

\* C6: when the request fails with an error response that carries a detail D
\* (a value the code takes as present, i.e. a truthy one), the view is in
\* Error with message exactly D, whatever the transport message is.
C6_DetailFirst ==
    (last.op = "failure" /\ Truthy(ResponseDetail(last.err))) =>
        /\ error = last.err.data.detail
        /\ ~loading
        /\ ActiveViews = {"error"}

C6_Witness ==
    /\ last.op = "failure"
    /\ last.err.data.detail = Str("quota exceeded")
    /\ last.err.message = Str("Request failed with status code 500")
    /\ error = Str("quota exceeded")
    /\ ErrorView

\* C7: when the request fails with no response detail, the view is in Error
\* with the transport message if there is one and with the generic string
\* otherwise; after a failure the error message is never empty or null.
C7_TransportThenGeneric ==
    /\ (last.op = "failure" /\ ~Truthy(ResponseDetail(last.err))) =>
           /\ error = IF Truthy(last.err.message) THEN last.err.message
                      ELSE Str("Failed to generate infographic. Please try again.")
           /\ ActiveViews = {"error"}
    /\ last.op = "failure" => error \notin {Null, Undefined, Str("")}

C7_Witness ==
    /\ last.op = "failure"
    /\ ~last.err.hasResponse
    /\ last.err.message = Str("")
    /\ error = Str("Failed to generate infographic. Please try again.")
    /\ ErrorView

\* C8: in every outcome of a generate (Result, Error from a malformed
\* payload, Error from a backend or transport failure), when the completion
\* handler has run loading is false and the progress message is "".
C8_CompletionClears ==
    last.op \in {"response", "failure"} => ~loading /\ loadingMessage = ""

C8_Witness ==
    /\ last.op = "failure"
    /\ ~loading
    /\ loadingMessage = ""
    /\ \E i \in 1..Len(timers) : ~timers[i].orphan /\ timers[i].delay < 10

\* C9: downloadImage saves the held payload under visa-wwc-infographic.png,
\* issuing no request, when the view is in Result; in every other state it
\* changes nothing and saves nothing.
C9_DownloadOnlyInResult ==
    [][Download =>
          /\ IF ResultView
             THEN saved' = [href |-> generatedImage,
                            download |-> "visa-wwc-infographic.png"]
             ELSE saved' = saved
          /\ UNCHANGED <<page, view, timers, pending, invoked, issued>>]_vars

C9_Witness ==
    /\ last.op = "download"
    /\ LoadingView
    /\ saved = [href |-> Str("X"), download |-> "visa-wwc-infographic.png"]

\* C10: retry from Error and regenerate from Result do what generate does:
\* the view enters Loading with error and result cleared and the message
\* "Preparing your infographic...", and one new request is issued.
C10_RetryIsGenerate ==
    [][(ClickRetry \/ ClickRegenerate) =>
          /\ LoadingView' /\ ActiveViews' = {"loading"}
          /\ error' = Null
          /\ generatedImage' = Null
          /\ loadingMessage' = "Preparing your infographic..."
          /\ issued' = issued + 1
          /\ pending' = pending \cup {[id |-> issued + 1, orphan |-> FALSE]}
          /\ [id |-> issued + 1, orphan |-> FALSE] \notin pending
          /\ Len(timers') = Len(timers) + 3]_vars

C10_Witness ==
    /\ last.op = "regenerate"
    /\ LoadingView
    /\ loadingMessage = "Preparing your infographic..."
    /\ Cardinality(LiveRequests) = 1
    /\ invoked = 2

\* C11: no request is issued automatically: the number of requests issued
\* always equals the number of invocations of generate/retry/regenerate, and
\* a step that is not such an invocation (a failed request's handler
\* included) issues no request.
C11_NoAutomaticRequest ==
    [][/\ issued' = invoked'
       /\ (issued' # issued \/ ~(RequestIds' \subseteq RequestIds)) =>
              /\ ClickGenerate \/ ClickRetry \/ ClickRegenerate \/ Reenter
              /\ issued' = issued + 1
       /\ Reject => issued' = issued /\ RequestIds' \subseteq RequestIds]_vars

C11_Witness ==
    /\ last.op = "failure"
    /\ pending = {}
    /\ issued = 2
    /\ invoked = 2

\* C12: going from the Generator View to the Landing View and back enters the
\* Generator View in a fresh Idle state, whatever state it was left in, and a
\* request or timer left pending by the earlier visit never changes the state
\* of the new view: the fresh view stays as it is until generate is invoked.
C12_FreshOnReentry ==
    [][/\ Proceed =>
              /\ ~loading' /\ generatedImage' = Null /\ error' = Null
              /\ loadingMessage' = ""
              /\ ActiveViews' = {"placeholder"}
       /\ ((TimerFire \/ Resolve \/ Reject) /\ last'.op = "orphan") =>
              UNCHANGED <<page, view>>
       /\ (PlaceholderView /\ loadingMessage = "") =>
              \/ UNCHANGED <<page, view>>
              \/ ClickGenerate
              \/ Back]_vars

C12_Witness ==
    /\ last.op = "orphan"
    /\ page = "generator"
    /\ PlaceholderView
    /\ loadingMessage = ""
    /\ invoked = 1
    /\ pending = {}
    /\ timers # << >>

\* C13 as stated: every generate that enters Loading eventually reaches Result
\* or Error with loading false.
C13_LoadingReachesOutcome == LoadingView ~> (~loading /\ (ResultView \/ ErrorView))

\* C13, amended: every generate that enters Loading eventually reaches Result
\* or Error with loading false, unless the Generator View is left first; the
\* view never stays in Loading forever, and in Error the retry control is
\* available.
C13_LoadingEnds ==
    /\ LoadingView ~> (page = "landing" \/ (~loading /\ (ResultView \/ ErrorView)))
    /\ [](ErrorView /\ invoked < MaxInvocations => ENABLED ClickRetry)

C13_Witness ==
    /\ last.op = "failure"
    /\ ErrorView
    /\ ~loading
    /\ invoked = 1
    /\ ENABLED ClickRetry

\* C14 as stated: a timer that fires after completion, in a terminal state,
\* puts its non-empty text on screen.
C14_LateTimerShown ==
    (last.op = "timer" /\ page = "generator" /\ ~loading) =>
        loadingMessage # "" /\ ShownProgress = loadingMessage

\* C14, amended: completion never cancels a timer, a timer leaves the queue
\* only by firing, and a timer that fires after completion sets loadingMessage
\* to its non-empty text in the terminal state; that text is not on screen,
\* since it is rendered in the loading view only.
C14_LateTimerHidden ==
    [][/\ (Resolve \/ Reject) => timers' = timers
       /\ Len(timers') < Len(timers) => TimerFire
       /\ (TimerFire /\ last'.op = "timer" /\ ~loading) =>
              /\ loadingMessage' \in {ProgressSchedule[i].message : i \in 1..3}
              /\ loadingMessage' # ""
              /\ ActiveViews' = ActiveViews
              /\ ShownProgress' = ""]_vars

C14_Witness ==
    /\ last.op = "timer"
    /\ ResultView
    /\ loadingMessage = "Finalizing your infographic..."
    /\ ShownProgress = ""

\* the controls that call generateInfographic and can be clicked
EnabledTriggers ==
    {c \in {"generate", "retry", "regenerate"} :
        CASE c = "generate" -> GenerateButtonEnabled
          [] c = "retry" -> ErrorView
          [] c = "regenerate" -> ResultView}

\* C15 as stated: with generate triggered only through enabled controls, at
\* most one generation request is in flight at any time, and no trigger is
\* enabled while a request is outstanding.
C15_OneRequestInFlight ==
    /\ Cardinality(pending) <= 1
    /\ pending # {} => EnabledTriggers = {}

\* C15, amended: with generate triggered only through enabled controls, at
\* most one request of the mounted Generator View is in flight, and no trigger
\* is enabled while such a request is outstanding; a request left behind by an
\* earlier visit of the view may be in flight beside it.
C15_OneLiveRequest ==
    /\ Cardinality(LiveRequests) <= 1
    /\ LiveRequests # {} => loading /\ EnabledTriggers = {}

C15_Witness ==
    /\ Cardinality(LiveRequests) = 1
    /\ Cardinality(pending) = 2
    /\ loading
    /\ EnabledTriggers = {}

\* C16 as stated: whenever loading is true the generate button is not
\* rendered.
C16_ButtonHiddenWhileLoading == LoadingView => ~GenerateButtonRendered

\* C16, amended: whenever loading is true the generate button is rendered
\* (generatedImage is null then) but disabled.
C16_ButtonDisabledWhileLoading ==
    LoadingView => GenerateButtonRendered /\ ~GenerateButtonEnabled

C16_Witness == LoadingView /\ GenerateButtonRendered /\ last.op = "regenerate"

\* C17: whenever a request of the view is in flight loading is true; with
\* overlapping invocations the completion of an earlier request never clears
\* loading while a later one is outstanding.
C17_LoadingWhileInFlight == LiveRequests # {} => loading

\* C18: the late completion of an earlier, overlapping request never
\* overwrites or adds to the outcome of a later invocation: the completion of
\* a request that is not the most recently issued one leaves result and error
\* as they are.
C18_LatestOutcomeWins ==
    [][\A r \in LiveRequests :
          (pending' = pending \ {r} /\ r.id < issued) =>
              UNCHANGED <<generatedImage, error>>]_vars

\* the place of a progress message in the sequence of lines 75-81
Rank(m) ==
    CASE m = "Preparing your infographic..." -> 1
      [] m = "Analyzing data and structure..." -> 2
      [] m = "Creating visual design with Visa blue theme..." -> 3
      [] m = "Finalizing your infographic..." -> 4
      [] OTHER -> 0

\* C19: within one Loading period the progress message only moves forward
\* through Preparing, Analyzing, Creating, Finalizing, also when the period
\* was entered by retry/regenerate while earlier timers are pending.
C19_ProgressMovesForward ==
    [][(TimerFire /\ loading /\ loading') =>
          Rank(loadingMessage') >= Rank(loadingMessage)]_vars

====
